---- MODULE Spec2Model ----
(***************************************************************************)
(* Model of code/finetune.py: the __main__ script that every rank of a     *)
(* distributed fine-tuning job runs.  Each rank is a process with its own  *)
(* program counter and local variables; the ranks share a filesystem and   *)
(* meet at the collective calls (the process-group rendezvous and          *)
(* dist.barrier()).                                                        *)
(***************************************************************************)
EXTENDS Integers, Sequences, FiniteSets, TLC

(* ------------------------------ bounds -------------------------------- *)
MaxRanks == 2
MaxEpoches == 2
MaxSaveSteps == 2
MaxBatches == 2
\* the largest small job explored, in batches run by all ranks together
MaxWork == 8
\* a dataloader longer than the loss window, run by a single rank
LongBatches == 201

\* losses[-200:] at finetune.py:153
Window == 200
\* the losses the engine reports are drawn from 1..LossMod
LossMod == 5

VARIABLES
    world_size,      \* number of ranks of the job
    max_epoches,     \* args.max_epoches
    save_steps,      \* args.save_steps
    len_dataloader,  \* len(train_dataloader), the same on every rank
    exists,          \* the directories that exist on the shared filesystem
    ckpt,            \* checkpoint directory -> what save_pretrained left in it
    writes,          \* the save_pretrained calls made so far, in order
    effects,         \* the logging / saving / mkdir side effects, by rank
    pc,              \* rank -> position in the script
    err,             \* rank -> the exception that ended it, or "none"
    path_i,          \* rank -> index of `path` in the directory-setup loop
    max_steps,       \* rank -> args.max_steps
    global_step,     \* rank -> global_step
    epoch,           \* rank -> epoch
    batch,           \* rank -> batches fetched from the dataloader this epoch
    loss,            \* rank -> loss of the current batch
    losses,          \* rank -> losses
    pbar,            \* rank -> the tqdm bar
    calls,           \* rank -> number of engine calls made, by kind
    sampler_epoch,   \* rank -> epoch last given to train_sampler.set_epoch
    passed           \* rank -> number of dist.barrier() calls returned from

vars == <<world_size, max_epoches, save_steps, len_dataloader, exists, ckpt,
          writes, effects, pc, err, path_i, max_steps, global_step, epoch,
          batch, loss, losses, pbar, calls, sampler_epoch, passed>>

Ranks == 0 .. (world_size - 1)

(* ----------------------------- helpers --------------------------------- *)

\* [args.save_dir, args.save_dir + args.save_name]
SetupPaths == <<"save_dir", "save_dir+save_name">>

\* the parent a path needs for os.mkdir to succeed ("" : none modelled)
ParentOf(p) == IF p = "save_dir+save_name" THEN "save_dir" ELSE ""

\* the checkpoint directories named by the f-strings
StepDir(g) == [kind |-> "step", idx |-> g]
LatestDir == [kind |-> "latest", idx |-> 0]
EpochDir(e) == [kind |-> "epoch", idx |-> e]

NoPbar == [open |-> FALSE, n |-> -1, sum |-> 0, len |-> 0]

GetRankLocal(r) == 0
\* torch.distributed.get_rank()
GetRank(r) == r

IsRankZeroAll(r) == TRUE
\* torch.distributed.get_rank() == 0
IsRankZero(r) == GetRank(r) = 0

SaveDueOffByOne(g, s) == g % s = s - 1
\* global_step % args.save_steps == 0
SaveDue(g, s) == g % s = 0

ReachedMaxStepsEarly(g, m) == g >= m - 1
\* global_step >= args.max_steps
ReachedMaxSteps(g, m) == g >= m

NextGlobalStepTwice(g) == g + 2
\* global_step += 1
NextGlobalStep(g) == g + 1

\* the loss the engine returns for the k-th forward pass of rank r
LossOf(r, k) == ((k * k + r) % LossMod) + 1

LastNAll(s, k) == s
\* s[-k:]
LastN(s, k) == IF Len(s) <= k THEN s ELSE SubSeq(s, Len(s) - k + 1, Len(s))

RECURSIVE SumSeq(_)
\* sum(s)
SumSeq(s) ==
    IF Len(s) = 0 THEN 0
    ELSE IF Len(s) = 1 THEN s[1]
    ELSE LET h == Len(s) \div 2
         IN  SumSeq(SubSeq(s, 1, h)) + SumSeq(SubSeq(s, h + 1, Len(s)))

\* the positions at which a rank is inside dist.barrier()
BarrierPcs == {"b143", "b149", "b159", "b163"}

BarrierReadyNone(r) == TRUE
\* dist.barrier() returns once every rank has entered the same barrier call
BarrierReady(r) ==
    \A q \in Ranks : \/ passed[q] > passed[r]
                     \/ passed[q] = passed[r] /\ pc[q] \in BarrierPcs

\* the rendezvous of init_process_group / deepspeed.init_distributed
RendezvousReady == \A q \in Ranks : pc[q] \notin {"check", "mkdir", "crashed"}

\* what save_pretrained(dir) of `what` leaves in `dir`
Saved(r, what, dir) ==
    LET old == IF dir \in DOMAIN ckpt THEN ckpt[dir]
               ELSE [model |-> -1, tokenizer |-> -1]
        new == IF what = "model" THEN [old EXCEPT !.model = calls[r].step]
               ELSE [old EXCEPT !.tokenizer = 0]
    IN  [d \in (DOMAIN ckpt) \cup {dir} |-> IF d = dir THEN new ELSE ckpt[d]]

WriteEvent(r, what, dir) ==
    [what |-> what, dir |-> dir, rank |-> r, gs |-> global_step[r],
     version |-> calls[r].step]

(* ------------------------------- Init ---------------------------------- *)

\* the jobs explored: small jobs of several ranks, and one-rank jobs whose
\* epoch is longer than the loss window
Configs ==
    {c \in {<<n, e, s, l>> : n \in 1..MaxRanks, e \in 0..MaxEpoches,
                               s \in 1..MaxSaveSteps, l \in 0..MaxBatches} :
        c[1] * c[2] * c[4] <= MaxWork}
    \cup {<<1, 2, Window, l>> : l \in (Window + 1)..LongBatches}

Init ==
    /\ \E c \in Configs : /\ world_size = c[1]
                           /\ max_epoches = c[2]
                           /\ save_steps = c[3]
                           /\ len_dataloader = c[4]
    /\ exists \in {{}, {"save_dir"}, {"save_dir", "save_dir+save_name"}}
    /\ ckpt = <<>>
    /\ writes = <<>>
    /\ effects = {}
    /\ pc = [r \in Ranks |-> "check"]
    /\ err = [r \in Ranks |-> "none"]
    /\ path_i = [r \in Ranks |-> 1]
    /\ max_steps = [r \in Ranks |-> 0]
    /\ global_step = [r \in Ranks |-> 0]
    /\ epoch = [r \in Ranks |-> 0]
    /\ batch = [r \in Ranks |-> 0]
    /\ loss = [r \in Ranks |-> 0]
    /\ losses = [r \in Ranks |-> <<>>]
    /\ pbar = [r \in Ranks |-> NoPbar]
    /\ calls = [r \in Ranks |-> [forward |-> 0, backward |-> 0, step |-> 0,
                                 zero_grad |-> 0]]
    /\ sampler_epoch = [r \in Ranks |-> -1]
    /\ passed = [r \in Ranks |-> 0]

(* ------------------------ directory setup (52-54) ---------------------- *)

Raise(r, e) == /\ pc' = [pc EXCEPT ![r] = "crashed"]
               /\ err' = [err EXCEPT ![r] = e]

\* the for statement of line 52 moves to the next path, or falls through
NextPath(r) ==
    IF path_i[r] < Len(SetupPaths)
    THEN /\ path_i' = [path_i EXCEPT ![r] = @ + 1]
         /\ pc' = [pc EXCEPT ![r] = "check"]
    ELSE /\ path_i' = path_i
         /\ pc' = [pc EXCEPT ![r] = "init_dist"]

\* line 53: if not os.path.exists(path)
CheckPath(r) ==
    /\ pc[r] = "check"
    /\ IF SetupPaths[path_i[r]] \in exists
       THEN NextPath(r)
       ELSE /\ pc' = [pc EXCEPT ![r] = "mkdir"]
            /\ path_i' = path_i
    /\ UNCHANGED <<world_size, max_epoches, save_steps, len_dataloader, exists,
                   ckpt, writes, effects, err, max_steps, global_step, epoch,
                   batch, loss, losses, pbar, calls, sampler_epoch, passed>>

\* line 54: os.mkdir(path)
MkDir(r) ==
    /\ pc[r] = "mkdir"
    /\ LET p == SetupPaths[path_i[r]] IN
       IF p \in exists
       THEN /\ Raise(r, "FileExistsError")
            /\ UNCHANGED <<exists, effects, path_i>>
       ELSE IF ParentOf(p) # "" /\ ParentOf(p) \notin exists
       THEN /\ Raise(r, "FileNotFoundError")
            /\ UNCHANGED <<exists, effects, path_i>>
       ELSE /\ exists' = exists \cup {p}
            /\ effects' = effects \cup {[rank |-> r, kind |-> "mkdir"]}
            /\ NextPath(r)
            /\ err' = err
    /\ UNCHANGED <<world_size, max_epoches, save_steps, len_dataloader, ckpt,
                   writes, max_steps, global_step, epoch, batch, loss, losses,
                   pbar, calls, sampler_epoch, passed>>

(* -------------------- start-up after the setup (56-120) ---------------- *)

\* lines 56-61: init_process_group / deepspeed.init_distributed
InitDistributed(r) ==
    /\ pc[r] = "init_dist"
    /\ RendezvousReady
    /\ pc' = [pc EXCEPT ![r] = "prepare"]
    /\ UNCHANGED <<world_size, max_epoches, save_steps, len_dataloader, exists,
                   ckpt, writes, effects, err, path_i, max_steps, global_step,
                   epoch, batch, loss, losses, pbar, calls, sampler_epoch,
                   passed>>

\* lines 63-120: the prints, the loaders, the engine, max_steps, global_step
Prepare(r) ==
    /\ pc[r] = "prepare"
    /\ effects' = effects \cup {[rank |-> r, kind |-> "print"]}
    /\ max_steps' = [max_steps EXCEPT ![r] = max_epoches * len_dataloader]
    /\ global_step' = [global_step EXCEPT ![r] = 0]
    /\ epoch' = [epoch EXCEPT ![r] = 0]
    /\ pc' = [pc EXCEPT ![r] = "epoch_head"]
    /\ UNCHANGED <<world_size, max_epoches, save_steps, len_dataloader, exists,
                   ckpt, writes, err, path_i, batch, loss, losses, pbar, calls,
                   sampler_epoch, passed>>

(* --------------------------- the epoch loop ---------------------------- *)

\* lines 121-128: the next epoch of range(max_epoches), up to the first batch
EpochHead(r) ==
    /\ pc[r] = "epoch_head"
    /\ IF epoch[r] < max_epoches
       THEN /\ losses' = [losses EXCEPT ![r] = <<>>]
            /\ sampler_epoch' = [sampler_epoch EXCEPT ![r] = epoch[r]]
            /\ IF IsRankZero(r)
               THEN /\ pbar' = [pbar EXCEPT ![r] = [open |-> TRUE, n |-> 0,
                                                    sum |-> 0, len |-> 0]]
                    /\ effects' = effects \cup
                                    {[rank |-> r, kind |-> "pbar_create"]}
               ELSE UNCHANGED <<pbar, effects>>
            /\ IF len_dataloader > 0
               THEN /\ batch' = [batch EXCEPT ![r] = 1]
                    /\ pc' = [pc EXCEPT ![r] = "forward"]
               ELSE /\ batch' = [batch EXCEPT ![r] = 0]
                    /\ pc' = [pc EXCEPT ![r] = "b159"]
       ELSE /\ pc' = [pc EXCEPT ![r] = "done"]
            /\ UNCHANGED <<losses, sampler_epoch, pbar, effects, batch>>
    /\ UNCHANGED <<world_size, max_epoches, save_steps, len_dataloader, exists,
                   ckpt, writes, err, path_i, max_steps, global_step, epoch,
                   loss, calls, passed>>

\* lines 129-134: loss = engine(...).loss
Forward(r) ==
    /\ pc[r] = "forward"
    /\ calls' = [calls EXCEPT ![r].forward = @ + 1]
    /\ loss' = [loss EXCEPT ![r] = LossOf(r, calls[r].forward + 1)]
    /\ pc' = [pc EXCEPT ![r] = "backward"]
    /\ UNCHANGED <<world_size, max_epoches, save_steps, len_dataloader, exists,
                   ckpt, writes, effects, err, path_i, max_steps, global_step,
                   epoch, batch, losses, pbar, sampler_epoch, passed>>

\* line 136: engine.backward(loss)
Backward(r) ==
    /\ pc[r] = "backward"
    /\ calls' = [calls EXCEPT ![r].backward = @ + 1]
    /\ pc' = [pc EXCEPT ![r] = "step"]
    /\ UNCHANGED <<world_size, max_epoches, save_steps, len_dataloader, exists,
                   ckpt, writes, effects, err, path_i, max_steps, global_step,
                   epoch, batch, loss, losses, pbar, sampler_epoch, passed>>

\* line 137: engine.step()
Step(r) ==
    /\ pc[r] = "step"
    /\ calls' = [calls EXCEPT ![r].step = @ + 1]
    /\ pc' = [pc EXCEPT ![r] = "zero_grad"]
    /\ UNCHANGED <<world_size, max_epoches, save_steps, len_dataloader, exists,
                   ckpt, writes, effects, err, path_i, max_steps, global_step,
                   epoch, batch, loss, losses, pbar, sampler_epoch, passed>>

\* line 138: engine.zero_grad()
ZeroGrad(r) ==
    /\ pc[r] = "zero_grad"
    /\ calls' = [calls EXCEPT ![r].zero_grad = @ + 1]
    /\ pc' = [pc EXCEPT ![r] = "account"]
    /\ UNCHANGED <<world_size, max_epoches, save_steps, len_dataloader, exists,
                   ckpt, writes, effects, err, path_i, max_steps, global_step,
                   epoch, batch, loss, losses, pbar, sampler_epoch, passed>>

\* lines 140-142: global_step += 1, losses.append, the save_steps test
Account(r) ==
    /\ pc[r] = "account"
    /\ global_step' = [global_step EXCEPT ![r] = NextGlobalStep(@)]
    /\ losses' = [losses EXCEPT ![r] = Append(@, loss[r])]
    /\ pc' = [pc EXCEPT ![r] = IF SaveDue(global_step'[r], save_steps)
                               THEN "b143" ELSE "progress"]
    /\ UNCHANGED <<world_size, max_epoches, save_steps, len_dataloader, exists,
                   ckpt, writes, effects, err, path_i, max_steps, epoch, batch,
                   loss, pbar, calls, sampler_epoch, passed>>

\* a dist.barrier() call returns and the rank goes on to `next`
PassBarrier(r, at, next) ==
    /\ pc[r] = at
    /\ BarrierReady(r)
    /\ passed' = [passed EXCEPT ![r] = @ + 1]
    /\ pc' = [pc EXCEPT ![r] = next]
    /\ UNCHANGED <<world_size, max_epoches, save_steps, len_dataloader, exists,
                   ckpt, writes, effects, err, path_i, max_steps, global_step,
                   epoch, batch, loss, losses, pbar, calls, sampler_epoch>>

\* a save_pretrained call of rank r
Save(r, at, what, dir, next) ==
    /\ pc[r] = at
    /\ ckpt' = Saved(r, what, dir)
    /\ writes' = Append(writes, WriteEvent(r, what, dir))
    /\ effects' = effects \cup {[rank |-> r, kind |-> "save"]}
    /\ pc' = [pc EXCEPT ![r] = next]
    /\ UNCHANGED <<world_size, max_epoches, save_steps, len_dataloader, exists,
                   err, path_i, max_steps, global_step, epoch, batch, loss,
                   losses, pbar, calls, sampler_epoch, passed>>

\* lines 143-144: dist.barrier(), then the rank test
Barrier143(r) ==
    PassBarrier(r, "b143", IF IsRankZero(r) THEN "save145" ELSE "b149")

\* line 145: model.save_pretrained(..._{global_step})
SaveModelStep(r) ==
    Save(r, "save145", "model", StepDir(global_step[r]), "save146")

SaveModelLatestSkipped(r) ==
    /\ pc[r] = "save146"
    /\ pc' = [pc EXCEPT ![r] = "save147"]
    /\ UNCHANGED <<world_size, max_epoches, save_steps, len_dataloader, exists,
                   ckpt, writes, effects, err, path_i, max_steps, global_step,
                   epoch, batch, loss, losses, pbar, calls, sampler_epoch,
                   passed>>
\* line 146: model.save_pretrained(..._latest)
SaveModelLatest(r) ==
    Save(r, "save146", "model", LatestDir, "save147")

\* line 147: tokenizer.save_pretrained(..._{global_step})
SaveTokenizerStep(r) ==
    Save(r, "save147", "tokenizer", StepDir(global_step[r]), "save148")

\* line 148: tokenizer.save_pretrained(..._latest)
SaveTokenizerLatest(r) ==
    Save(r, "save148", "tokenizer", LatestDir, "b149")

\* line 149: dist.barrier()
Barrier149(r) == PassBarrier(r, "b149", "progress")

\* lines 151-156 and the for statement of line 128: the progress bar on rank
\* 0, the max_steps break, the next batch
Progress(r) ==
    /\ pc[r] = "progress"
    /\ IF IsRankZero(r) /\ Len(LastN(losses[r], Window)) = 0
       THEN /\ Raise(r, "ZeroDivisionError")
            /\ UNCHANGED <<pbar, effects, batch>>
       ELSE /\ err' = err
            /\ IF IsRankZero(r)
               THEN /\ pbar' = [pbar EXCEPT ![r] =
                                  [open |-> @.open, n |-> @.n + 1,
                                   sum |-> SumSeq(LastN(losses[r], Window)),
                                   len |-> Len(LastN(losses[r], Window))]]
                    /\ effects' = effects \cup
                                    {[rank |-> r, kind |-> "pbar_update"],
                                     [rank |-> r, kind |-> "pbar_desc"]}
               ELSE UNCHANGED <<pbar, effects>>
            /\ IF ReachedMaxSteps(global_step[r], max_steps[r])
               THEN /\ pc' = [pc EXCEPT ![r] = "b159"]
                    /\ batch' = batch
               ELSE IF batch[r] < len_dataloader
               THEN /\ pc' = [pc EXCEPT ![r] = "forward"]
                    /\ batch' = [batch EXCEPT ![r] = @ + 1]
               ELSE /\ pc' = [pc EXCEPT ![r] = "b159"]
                    /\ batch' = batch
    /\ UNCHANGED <<world_size, max_epoches, save_steps, len_dataloader, exists,
                   ckpt, writes, path_i, max_steps, global_step, epoch, loss,
                   losses, calls, sampler_epoch, passed>>

\* lines 159-160: dist.barrier(), then the rank test
Barrier159(r) ==
    PassBarrier(r, "b159", IF IsRankZero(r) THEN "save161" ELSE "b163")

\* line 161: model.save_pretrained(..._epoch{epoch})
SaveModelEpoch(r) ==
    Save(r, "save161", "model", EpochDir(epoch[r]), "save162")

\* line 162: tokenizer.save_pretrained(..._epoch{epoch})
SaveTokenizerEpoch(r) ==
    Save(r, "save162", "tokenizer", EpochDir(epoch[r]), "b163")

\* line 163: dist.barrier()
Barrier163(r) == PassBarrier(r, "b163", "epoch_end")

\* lines 165-168: pbar.close() on rank 0, the max_steps break
EpochEnd(r) ==
    /\ pc[r] = "epoch_end"
    /\ IF IsRankZero(r)
       THEN /\ pbar' = [pbar EXCEPT ![r].open = FALSE]
            /\ effects' = effects \cup {[rank |-> r, kind |-> "pbar_close"]}
       ELSE UNCHANGED <<pbar, effects>>
    /\ IF ReachedMaxSteps(global_step[r], max_steps[r])
       THEN /\ pc' = [pc EXCEPT ![r] = "done"]
            /\ epoch' = epoch
       ELSE /\ pc' = [pc EXCEPT ![r] = "epoch_head"]
            /\ epoch' = [epoch EXCEPT ![r] = @ + 1]
    /\ UNCHANGED <<world_size, max_epoches, save_steps, len_dataloader, exists,
                   ckpt, writes, err, path_i, max_steps, global_step, batch,
                   loss, losses, calls, sampler_epoch, passed>>

(* --------------------------- specification ----------------------------- *)

RankNext(r) ==
    \/ CheckPath(r)
    \/ MkDir(r)
    \/ InitDistributed(r)
    \/ Prepare(r)
    \/ EpochHead(r)
    \/ Forward(r)
    \/ Backward(r)
    \/ Step(r)
    \/ ZeroGrad(r)
    \/ Account(r)
    \/ Barrier143(r)
    \/ SaveModelStep(r)
    \/ SaveModelLatest(r)
    \/ SaveTokenizerStep(r)
    \/ SaveTokenizerLatest(r)
    \/ Barrier149(r)
    \/ Progress(r)
    \/ Barrier159(r)
    \/ SaveModelEpoch(r)
    \/ SaveTokenizerEpoch(r)
    \/ Barrier163(r)
    \/ EpochEnd(r)

Next ==
    \/ \E r \in Ranks : CheckPath(r)
    \/ \E r \in Ranks : MkDir(r)
    \/ \E r \in Ranks : InitDistributed(r)
    \/ \E r \in Ranks : Prepare(r)
    \/ \E r \in Ranks : EpochHead(r)
    \/ \E r \in Ranks : Forward(r)
    \/ \E r \in Ranks : Backward(r)
    \/ \E r \in Ranks : Step(r)
    \/ \E r \in Ranks : ZeroGrad(r)
    \/ \E r \in Ranks : Account(r)
    \/ \E r \in Ranks : Barrier143(r)
    \/ \E r \in Ranks : SaveModelStep(r)
    \/ \E r \in Ranks : SaveModelLatest(r)
    \/ \E r \in Ranks : SaveTokenizerStep(r)
    \/ \E r \in Ranks : SaveTokenizerLatest(r)
    \/ \E r \in Ranks : Barrier149(r)
    \/ \E r \in Ranks : Progress(r)
    \/ \E r \in Ranks : Barrier159(r)
    \/ \E r \in Ranks : SaveModelEpoch(r)
    \/ \E r \in Ranks : SaveTokenizerEpoch(r)
    \/ \E r \in Ranks : Barrier163(r)
    \/ \E r \in Ranks : EpochEnd(r)

Spec == Init /\ [][Next]_vars

\* every rank is a running process: a rank that can take a step takes one
FairSpec == Spec /\ \A r \in 0 .. (MaxRanks - 1) : WF_vars(r \in Ranks /\ RankNext(r))


(* --------------------------- vocabulary -------------------------------- *)

\* rank 0 is between the two barriers of a step checkpoint, writing it
StepSavePcs == {"save145", "save146", "save147", "save148"}
\* rank 0 is between the two barriers of an epoch checkpoint, writing it
EpochSavePcs == {"save161", "save162"}
\* the rank has run forward for a batch it has not yet counted in global_step
InBatchPcs == {"backward", "step", "zero_grad", "account"}
\* the rank is inside the training loop or past it
TrainingPcs == {"epoch_head", "forward", "b143", "b149", "progress", "b159",
                "b163", "epoch_end", "done"}
                 \cup InBatchPcs \cup StepSavePcs \cup EpochSavePcs

WriteIdx == 1 .. Len(writes)
Min(a, b) == IF a <= b THEN a ELSE b
AllDone == \A r \in Ranks : pc[r] = "done"

\* the four saves of the step checkpoint of global step g were made, in the
\* order of lines 145-148, when the writer's global_step and model were at g
StepCheckpointWritten(g) ==
    \E i \in WriteIdx :
        /\ i + 3 <= Len(writes)
        /\ <<writes[i].what, writes[i].dir>> = <<"model", StepDir(g)>>
        /\ <<writes[i + 1].what, writes[i + 1].dir>> = <<"model", LatestDir>>
        /\ <<writes[i + 2].what, writes[i + 2].dir>> = <<"tokenizer", StepDir(g)>>
        /\ <<writes[i + 3].what, writes[i + 3].dir>> = <<"tokenizer", LatestDir>>
        /\ \A j \in i .. (i + 3) : writes[j].gs = g /\ writes[j].version = g

\* some save of a step checkpoint was made while the writer was at global step g
StepCheckpointTouched(g) ==
    \E i \in WriteIdx : /\ writes[i].dir.kind \in {"step", "latest"}
                        /\ writes[i].gs = g

\* rank r is past the checkpoint block (lines 142-149) of its global step g
PastStep(r, g) ==
    \/ global_step[r] > g
    \/ /\ global_step[r] = g
       /\ pc[r] \in TrainingPcs \ ({"b143", "b149"} \cup StepSavePcs)

EpochWrites(e, what) ==
    {i \in WriteIdx : writes[i].dir = EpochDir(e) /\ writes[i].what = what}

EpochsWritten == {writes[i].dir.idx : i \in {j \in WriteIdx : writes[j].dir.kind = "epoch"}}

RECURSIVE SumLoss(_, _, _)
\* the sum of the losses of the forward passes a..b of rank r
SumLoss(r, a, b) ==
    IF a > b THEN 0
    ELSE IF a = b THEN LossOf(r, a)
    ELSE LET h == (a + b) \div 2
         IN  SumLoss(r, a, h) + SumLoss(r, h + 1, b)

(* ------------------------------ claims --------------------------------- *)

\* C1: every save_pretrained call, of a step checkpoint or of an epoch
\* checkpoint, is made by rank 0; no other rank is ever at a save statement.
C1_SavesOnlyByRankZero ==
    /\ \A i \in WriteIdx : writes[i].rank = 0
    /\ \A r \in Ranks : pc[r] \in StepSavePcs \cup EpochSavePcs => r = 0

C1_Witness ==
    /\ world_size >= 2
    /\ AllDone
    /\ \E i \in WriteIdx : writes[i].dir.kind = "step"
    /\ \E i \in WriteIdx : writes[i].dir.kind = "epoch"

\* C2: while rank 0 is writing a checkpoint, every rank has finished forward,
\* backward, step and zero_grad of exactly global_step[0] batches, has the
\* same global_step, and is not inside a later batch; for an epoch checkpoint
\* that global step is the last one of the epoch.
C2_WritesBracketedByBarriers ==
    pc[0] \in StepSavePcs \cup EpochSavePcs =>
        /\ \A r \in Ranks :
             /\ global_step[r] = global_step[0]
             /\ calls[r].step = global_step[0]
             /\ calls[r].zero_grad = global_step[0]
             /\ calls[r].forward = global_step[0]
             /\ calls[r].backward = global_step[0]
             /\ pc[r] \notin InBatchPcs
        /\ pc[0] \in StepSavePcs => global_step[0] % save_steps = 0
        /\ pc[0] \in EpochSavePcs =>
             global_step[0] = (epoch[0] + 1) * len_dataloader

C2_Witness ==
    /\ world_size >= 2
    /\ pc[0] = "save147"
    /\ \E i \in WriteIdx : writes[i].dir.kind = "epoch"

\* C3: for every rank that is past the checkpoint block of its global step g,
\* the step checkpoint of g (model and tokenizer, each to '_g' and '_latest')
\* has been written if and only if g is a positive multiple of save_steps; no
\* save of a step checkpoint is made at any other global step.
C3_StepCadence ==
    /\ \A r \in Ranks : \A g \in 1 .. global_step[r] :
          PastStep(r, g) => (StepCheckpointWritten(g) <=> g % save_steps = 0)
    /\ \A i \in WriteIdx :
          writes[i].dir.kind \in {"step", "latest"} =>
              /\ writes[i].gs >= 1
              /\ writes[i].gs % save_steps = 0
              /\ writes[i].dir.kind = "step" => writes[i].dir.idx = writes[i].gs

C3_Witness ==
    /\ world_size >= 2
    /\ save_steps = 2
    /\ AllDone
    /\ global_step[0] = 4
    /\ StepCheckpointWritten(2) /\ StepCheckpointWritten(4)
    /\ ~StepCheckpointTouched(1) /\ ~StepCheckpointTouched(3)

\* the ordering half of C4: an epoch checkpoint is written at most once, when
\* the last batch of its epoch has been stepped, and before any rank runs a
\* batch of the next epoch
C4_EpochOrder ==
    /\ \A i \in WriteIdx :
          writes[i].dir.kind = "epoch" =>
              /\ writes[i].gs = (writes[i].dir.idx + 1) * len_dataloader
              /\ writes[i].version = writes[i].gs
    /\ \A e \in 0 .. max_epoches :
          /\ Cardinality(EpochWrites(e, "model")) <= 1
          /\ Cardinality(EpochWrites(e, "tokenizer")) <= 1
          /\ \A r \in Ranks :
                calls[r].forward > (e + 1) * len_dataloader =>
                    /\ Cardinality(EpochWrites(e, "model")) = 1
                    /\ Cardinality(EpochWrites(e, "tokenizer")) = 1

\* C4 as stated: for max_epoches >= 1 and any L >= 0, a finished run has
\* written exactly one epoch checkpoint for each epoch 0..max_epoches-1.
C4_Original ==
    /\ C4_EpochOrder
    /\ (pc[0] = "done" /\ max_epoches >= 1) =>
          /\ EpochsWritten = 0 .. (max_epoches - 1)
          /\ \A e \in EpochsWritten :
                /\ Cardinality(EpochWrites(e, "model")) = 1
                /\ Cardinality(EpochWrites(e, "tokenizer")) = 1

\* C4 (amended): for max_epoches >= 1, a finished run has written exactly one
\* epoch checkpoint for each epoch 0..max_epoches-1 when L >= 1, and only the
\* checkpoint of epoch 0 when L = 0; each is written after the last batch of
\* its epoch and before the first batch of the next.
C4_EpochCheckpoints ==
    /\ C4_EpochOrder
    /\ (pc[0] = "done" /\ max_epoches >= 1) =>
          /\ EpochsWritten = IF len_dataloader >= 1
                             THEN 0 .. (max_epoches - 1) ELSE {0}
          /\ \A e \in EpochsWritten :
                /\ Cardinality(EpochWrites(e, "model")) = 1
                /\ Cardinality(EpochWrites(e, "tokenizer")) = 1

C4_Witness ==
    /\ world_size >= 2
    /\ max_epoches = 2
    /\ len_dataloader = 2
    /\ AllDone
    /\ EpochsWritten = {0, 1}

\* C5 as stated: every logging side effect (console print, progress bar) and
\* every saving side effect is performed by rank 0.
C5_Original ==
    \A e \in effects :
        e.kind \in {"print", "pbar_create", "pbar_update", "pbar_desc",
                    "pbar_close", "save"} => e.rank = 0

\* C5 (amended): the progress bar (creation, update, description, close) and
\* the saves are performed by rank 0 only; the start-up prints are made by
\* every rank that gets past the start-up.
C5_RankZeroEffects ==
    /\ \A e \in effects :
          e.kind \in {"pbar_create", "pbar_update", "pbar_desc", "pbar_close",
                      "save"} => e.rank = 0
    /\ \A r \in Ranks : pbar[r] # NoPbar => r = 0
    /\ \A r \in Ranks :
          pc[r] \in TrainingPcs => [rank |-> r, kind |-> "print"] \in effects

C5_Witness ==
    /\ world_size >= 2
    /\ AllDone
    /\ [rank |-> 1, kind |-> "print"] \in effects
    /\ {[rank |-> 0, kind |-> k] : k \in {"pbar_create", "pbar_update",
            "pbar_desc", "pbar_close", "save"}} \subseteq effects

\* C6: once rank 0 has shown the loss of the n-th step of the current epoch,
\* the loss shown is the sum of the last min(200, n) losses of that epoch over
\* min(200, n); the window is never empty and no rank divides by zero.
C6_RollingLoss ==
    /\ \A r \in Ranks : err[r] # "ZeroDivisionError"
    /\ LET n == global_step[0] - epoch[0] * len_dataloader IN
       (pc[0] \in TrainingPcs /\ pbar[0].n >= 1 /\ pbar[0].n = n) =>
           /\ pbar[0].len = Min(Window, n)
           /\ pbar[0].len >= 1
           /\ pbar[0].sum = SumLoss(0, global_step[0] - Min(Window, n) + 1,
                                    global_step[0])

C6_Witness ==
    /\ epoch[0] = 1
    /\ pbar[0].n = Window + 1
    /\ pbar[0].n = global_step[0] - epoch[0] * len_dataloader
    /\ pbar[0].len = Window

\* the state half of C7: the engine calls of a batch are made in the order
\* forward, backward, step, zero_grad, once each, and global_step counts the
\* batches for which all four are done
C7_CallOrder ==
    \A r \in Ranks :
        LET g == global_step[r]
            after(S) == IF pc[r] \in S THEN g + 1 ELSE g
        IN  /\ calls[r].forward = after(InBatchPcs)
            /\ calls[r].backward = after({"step", "zero_grad", "account"})
            /\ calls[r].step = after({"zero_grad", "account"})
            /\ calls[r].zero_grad = after({"account"})
            /\ pc[r] \in TrainingPcs \ {"done"} =>
                  /\ g >= epoch[r] * len_dataloader
                  /\ g <= (epoch[r] + 1) * len_dataloader

\* C7 as stated: in every reachable state a rank's global_step equals the
\* number of optimizer steps the rank has completed.
C7_Original == \A r \in Ranks : global_step[r] = calls[r].step

\* C7 (amended): each batch gets forward, backward, step, zero_grad in that
\* order, once each, and then global_step grows by exactly 1; global_step
\* equals the number of completed optimizer steps except between engine.step()
\* and the increment of the same batch, where it is one less; it never
\* decreases and is not reset between epochs.
C7_StepProtocol ==
    /\ [] C7_CallOrder
    /\ [][\A r \in Ranks : /\ global_step'[r] >= global_step[r]
                           /\ global_step'[r] <= global_step[r] + 1
                           /\ global_step'[r] # global_step[r] =>
                                 /\ pc[r] = "account"
                                 /\ calls[r].zero_grad = global_step'[r]]_vars

C7_Witness ==
    \E r \in Ranks : /\ r >= 1
                     /\ pc[r] = "zero_grad"
                     /\ epoch[r] = 1
                     /\ global_step[r] = 3
                     /\ calls[r].step = 4

\* C8: every rank eventually terminates with global_step = max_epoches * L,
\* and global_step never exceeds max_steps.
C8_Terminates ==
    /\ [] (\A r \in Ranks : global_step[r] <= max_epoches * len_dataloader)
    /\ <> (\A r \in Ranks : /\ pc[r] = "done"
                           /\ global_step[r] = max_epoches * len_dataloader)

\* what does hold of termination: a job none of whose ranks raised in the
\* directory setup runs to the end
TerminatesUnlessCrashed ==
    <> (\/ \E r \in Ranks : pc[r] = "crashed"
        \/ \A r \in Ranks : /\ pc[r] = "done"
                            /\ global_step[r] = max_epoches * len_dataloader)

\* C9: under every interleaving no rank raises in the directory setup, and
\* both directories exist once a rank has got past it.
C9_SetupSucceeds ==
    \A r \in Ranks :
        /\ err[r] = "none"
        /\ pc[r] \notin {"check", "mkdir"} =>
              exists = {"save_dir", "save_dir+save_name"}

\* what '_latest' holds when it tracks the step checkpoints
LatestTracks ==
    LET g == (global_step[0] \div save_steps) * save_steps IN
    IF \E d \in DOMAIN ckpt : d.kind = "step"
    THEN /\ LatestDir \in DOMAIN ckpt
         /\ StepDir(g) \in DOMAIN ckpt
         /\ ckpt[LatestDir] = ckpt[StepDir(g)]
         /\ ckpt[LatestDir] = [model |-> g, tokenizer |-> 0]
    ELSE LatestDir \notin DOMAIN ckpt

====
